---- MODULE Spec2Model ----
(***************************************************************************)
(* Model of verify_json.py: a batch validator that walks a fixed list of   *)
(* paths, opens each file read-only as UTF-8 text, hands the handle to     *)
(* json.load, and prints "OK: <path>" or "ERROR: <path>" plus the text of  *)
(* the exception.  One action per statement of the loop body; the console, *)
(* the file system, the set of open handles and the pending exception are  *)
(* the state.  print is taken to succeed: standard output stays writable.  *)
(* Rerun starts the script again on the same file system, so that two runs *)
(* can be compared.                                                        *)
(***************************************************************************)
EXTENDS Naturals, Sequences, FiniteSets, TLC

VARIABLES
    files,        \* the module-level list `files`
    fs,           \* the file system: what is stored at each path
    pc,           \* the statement the interpreter is about to execute
    i,            \* how many entries of `files` the for-loop has consumed
    f,            \* the loop variable `f`
    openHandles,  \* paths that currently have an open file object
    exc,          \* the class of the exception in flight / bound to `e`
    raisedAt,     \* the statement of the try body that raised it
    out,          \* the lines written to standard output by this run
    exitStatus,   \* {} while running, {status} once the process has ended
    runs,         \* how many times the script has been started
    prevOut       \* the transcript of the previous run, kept by the observer

vars == <<files, fs, pc, i, f, openHandles, exc, raisedAt, out, exitStatus,
          runs, prevOut>>

----------------------------------------------------------------------------
(* Bounds of the model. *)

\* longest path list explored
MaxFiles == 2

\* how many times the script is started on the same file system
MaxRuns == 2

----------------------------------------------------------------------------
(* The inputs. *)

\* The directory the configured paths share.
LocaleDir == "d:/download/VRC-Worlds-Manager-v2-vrc-world-manager-v1.3.0-rc.0/locales/"

\* The two configured locale files, plus one further path so that lists of
\* other lengths and orders are explored.
Paths == {LocaleDir \o "ja-JP.json", LocaleDir \o "en-US.json", "a.json"}

\* What can be stored at a path, as far as open() and json.load() can tell.
FileKinds == {"valid", "invalid", "undecodable", "unreadable", "missing"}

\* The path lists explored: pairwise distinct paths, as in the source list.
PathLists ==
    { s \in UNION { [1..n -> Paths] : n \in 0..MaxFiles } :
        \A a, b \in 1..Len(s) : a # b => s[a] # s[b] }

----------------------------------------------------------------------------
(* The library calls the loop body makes, by what they do. *)

\* open(f, 'r', encoding='utf-8'): the exception class it raises, or "None".
OpenError(kind) ==
    CASE kind = "missing"    -> "FileNotFoundError"
      [] kind = "unreadable" -> "PermissionError"
      [] OTHER               -> "None"

\* Variant: the file opened in a writing mode, which empties it (an empty
\* file is not a JSON document).
FsAfterOpenTruncating(fsys, path) == [fsys EXCEPT ![path] = "invalid"]

\* The file system after a successful open(): mode 'r' neither creates nor
\* truncates.
FsAfterOpen(fsys, path) == fsys

\* json.load(fp): fp.read() decodes the bytes, json.loads parses the text.
LoadError(kind) ==
    CASE kind = "undecodable" -> "UnicodeDecodeError"
      [] kind = "invalid"     -> "JSONDecodeError"
      [] OTHER                -> "None"

\* Variant: a handler written `except json.JSONDecodeError`.
CaughtOnlyJSONDecodeError(e) == e = "JSONDecodeError"

\* The classes `except Exception` catches: every class the body can raise
\* derives from Exception (OSError and ValueError are its subclasses).
Caught(e) ==
    e \in {"FileNotFoundError", "PermissionError", "UnicodeDecodeError",
           "JSONDecodeError"}

\* Where control goes when exception e leaves the try body.
HandlerTarget(e) == IF Caught(e) THEN "print_error" ELSE "crashed"

\* Variant: the success line without the path.
OkLineWithoutPath(path) == "OK"

\* f"OK: {f}"
OkLine(path) == "OK: " \o path

\* f"ERROR: {f}"
ErrorLine(path) == "ERROR: " \o path

\* Variant: a message that names the process that produced it.
StrOfExceptionWithRun(e, path) ==
    "<" \o e \o " object of process " \o ToString(runs) \o ">"

\* Variant: an exception whose text is empty.
StrOfExceptionEmpty(e, path) == ""

\* str(e), the line print(e) writes, for each class the body raises.
StrOfException(e, path) ==
    CASE e = "FileNotFoundError" ->
             "[Errno 2] No such file or directory: '" \o path \o "'"
      [] e = "PermissionError" ->
             "[Errno 13] Permission denied: '" \o path \o "'"
      [] e = "UnicodeDecodeError" ->
             "'utf-8' codec can't decode byte 0xff in position 0: invalid start byte"
      [] e = "JSONDecodeError" ->
             "Expecting value: line 1 column 1 (char 0)"
      [] OTHER -> "None"

\* Variant: the list walked from its end.
NextPathReversed(fl, k) == fl[Len(fl) - k]

\* The entry the for-loop binds to f on its (k+1)-th iteration.
NextPath(fl, k) == fl[k + 1]

----------------------------------------------------------------------------
(* The state after the module-level assignments, before the loop starts. *)

Init ==
    /\ files \in PathLists
    /\ fs \in [Paths -> FileKinds]
    /\ pc = "for"
    /\ i = 0
    /\ f = ""
    /\ openHandles = {}
    /\ exc = "None"
    /\ raisedAt = "none"
    /\ out = << >>
    /\ exitStatus = {}
    /\ runs = 1
    /\ prevOut = << >>

----------------------------------------------------------------------------
(* The statements. *)

\* for f in files: bind the next entry, or leave the loop and end the script.
ForNext ==
    /\ pc = "for"
    /\ IF i < Len(files)
       THEN /\ f' = NextPath(files, i)
            /\ i' = i + 1
            /\ pc' = "open"
            /\ UNCHANGED exitStatus
       ELSE /\ pc' = "done"
            /\ exitStatus' = {0}
            /\ UNCHANGED <<f, i>>
    /\ UNCHANGED <<files, fs, openHandles, exc, raisedAt, out, runs, prevOut>>

\* with open(f, 'r', encoding='utf-8') as fp: acquire the handle or raise.
OpenFile ==
    /\ pc = "open"
    /\ LET e == OpenError(fs[f])
       IN  IF e = "None"
           THEN /\ openHandles' = openHandles \cup {f}
                /\ fs' = FsAfterOpen(fs, f)
                /\ exc' = "None"
                /\ raisedAt' = "none"
                /\ pc' = "load"
                /\ UNCHANGED exitStatus
           ELSE /\ exc' = e
                /\ raisedAt' = "open"
                /\ pc' = HandlerTarget(e)
                /\ exitStatus' = IF Caught(e) THEN exitStatus ELSE {1}
                /\ UNCHANGED <<openHandles, fs>>
    /\ UNCHANGED <<files, i, f, out, runs, prevOut>>

\* json.load(fp): read, decode and parse; the result is discarded.
Load ==
    /\ pc = "load"
    /\ LET e == LoadError(fs[f])
       IN  /\ exc' = e
           /\ raisedAt' = IF e = "None" THEN "none" ELSE "load"
    /\ pc' = "exit_with"
    /\ UNCHANGED <<files, fs, i, f, openHandles, out, exitStatus, runs, prevOut>>

\* Variant: the with block is left without the handle being closed.
ExitWithLeaking ==
    /\ pc = "exit_with"
    /\ pc' = IF exc = "None" THEN "print_ok" ELSE HandlerTarget(exc)
    /\ exitStatus' = IF exc = "None" \/ Caught(exc) THEN exitStatus ELSE {1}
    /\ UNCHANGED <<files, fs, i, f, openHandles, exc, raisedAt, out, runs,
                   prevOut>>

\* Variant: the context manager swallows the exception in flight.
ExitWithSuppressing ==
    /\ pc = "exit_with"
    /\ openHandles' = openHandles \ {f}
    /\ pc' = "print_ok"
    /\ UNCHANGED <<files, fs, i, f, exc, raisedAt, out, exitStatus, runs,
                   prevOut>>

\* Leaving the with block: fp.__exit__ closes the handle, normally or while
\* an exception is in flight, and lets the exception continue.
ExitWith ==
    /\ pc = "exit_with"
    /\ openHandles' = openHandles \ {f}
    /\ pc' = IF exc = "None" THEN "print_ok" ELSE HandlerTarget(exc)
    /\ exitStatus' = IF exc = "None" \/ Caught(exc) THEN exitStatus ELSE {1}
    /\ UNCHANGED <<files, fs, i, f, exc, raisedAt, out, runs, prevOut>>

\* print(f"OK: {f}")
PrintOk ==
    /\ pc = "print_ok"
    /\ out' = Append(out, OkLine(f))
    /\ pc' = "for"
    /\ UNCHANGED <<files, fs, i, f, openHandles, exc, raisedAt, exitStatus,
                   runs, prevOut>>

\* print(f"ERROR: {f}")
PrintError ==
    /\ pc = "print_error"
    /\ out' = Append(out, ErrorLine(f))
    /\ pc' = "print_e"
    /\ UNCHANGED <<files, fs, i, f, openHandles, exc, raisedAt, exitStatus,
                   runs, prevOut>>

\* Variant: the handler ends the batch after reporting the first failure.
PrintMessageThenStop ==
    /\ pc = "print_e"
    /\ out' = Append(out, StrOfException(exc, f))
    /\ pc' = "done"
    /\ exitStatus' = {0}
    /\ UNCHANGED <<files, fs, i, f, openHandles, exc, raisedAt, runs, prevOut>>

\* print(e)
PrintMessage ==
    /\ pc = "print_e"
    /\ out' = Append(out, StrOfException(exc, f))
    /\ pc' = "for"
    /\ UNCHANGED <<files, fs, i, f, openHandles, exc, raisedAt, exitStatus,
                   runs, prevOut>>

\* The script is started again on the same file system: a new process
\* evaluates the module from its first line; the observer keeps the
\* transcript of the run that just ended.
Rerun ==
    /\ pc = "done"
    /\ runs < MaxRuns
    /\ runs' = runs + 1
    /\ prevOut' = out
    /\ pc' = "for"
    /\ i' = 0
    /\ f' = ""
    /\ openHandles' = {}
    /\ exc' = "None"
    /\ raisedAt' = "none"
    /\ out' = << >>
    /\ exitStatus' = {}
    /\ UNCHANGED <<files, fs>>

Next ==
    \/ ForNext
    \/ OpenFile
    \/ Load
    \/ ExitWith
    \/ PrintOk
    \/ PrintError
    \/ PrintMessage
    \/ Rerun

Spec == Init /\ [][Next]_vars

\* The interpreter is sequential and never waits: an enabled statement runs.
FairSpec == Spec /\ WF_vars(Next)

----------------------------------------------------------------------------
(* The vocabulary of the properties: the console format of the interface,  *)
(* written out independently of the statements above.                      *)

OkReport(p) == "OK: " \o p

ErrorReport(p) == "ERROR: " \o p

\* A line that opens the report block of some path.
IsHeader(l) == \E p \in Paths : l = OkReport(p) \/ l = ErrorReport(p)

HeaderPath(l) == CHOOSE p \in Paths : l = OkReport(p) \/ l = ErrorReport(p)

\* The paths of the blocks printed so far, in the order printed.
ReportedPaths ==
    LET hs == SelectSeq(out, IsHeader)
    IN  [k \in 1..Len(hs) |-> HeaderPath(hs[k])]

\* The positions of the console at which line l stands.
Positions(l) == { k \in 1..Len(out) : out[k] = l }

\* The file at p opens, decodes and parses.
Passes(p) == fs[p] = "valid"

\* Access failure: the open or the decoding fails.  Syntax failure: the parse.
AccessFailure(p) == fs[p] \in {"missing", "unreadable", "undecodable"}

SyntaxFailure(p) == fs[p] = "invalid"

\* The loop stands between two iterations, or has ended.
BetweenBlocks == pc \in {"for", "done"}

\* The entries of `files` whose processing is over.
Processed == IF BetweenBlocks THEN 1..i ELSE 1..(i - 1)

\* The last block on the console is the failure / success block of path f.
LastBlockIsError == Len(out) >= 2 /\ out[Len(out) - 1] = ErrorReport(f)

LastBlockIsOk == Len(out) >= 1 /\ out[Len(out)] = OkReport(f)

----------------------------------------------------------------------------
(* C1: the blocks on the console are those of a prefix of the path list,   *)
(* in list order, one per path, and of the whole list once the run has     *)
(* ended; a line that is not a header directly follows the ERROR header of *)
(* its own block, so a block is complete before the next one starts.       *)
OrderPreservation ==
    /\ Len(ReportedPaths) <= Len(files)
    /\ ReportedPaths = SubSeq(files, 1, Len(ReportedPaths))
    /\ Len(ReportedPaths) \in {i - 1, i}
    /\ BetweenBlocks => Len(ReportedPaths) = i
    /\ pc = "done" => ReportedPaths = files
    /\ \A k \in 1..Len(out) :
          ~IsHeader(out[k]) =>
              /\ k > 1
              /\ \E p \in Paths : out[k - 1] = ErrorReport(p)
    /\ \A k \in 1..Len(out) :
          (\E p \in Paths : out[k] = ErrorReport(p)) /\ k < Len(out)
              => ~IsHeader(out[k + 1])

\* A finished run over two paths, the first failing and the second passing.
OrderPreservationWitness ==
    /\ pc = "done"
    /\ Len(files) = 2
    /\ ~Passes(files[1])
    /\ Passes(files[2])
    /\ Len(out) = 3

----------------------------------------------------------------------------
(* C2: at the end of a run every path of the list has its block on the     *)
(* console, and the block is the one its own file determines: the OK line  *)
(* if it passes, the ERROR line and a message line if it fails, whatever   *)
(* the other paths did.                                                     *)
RaisedBy(kind) ==
    IF OpenError(kind) # "None" THEN OpenError(kind) ELSE LoadError(kind)

\* The block of p as a function of p and of what is stored at p alone.
OwnBlock(p) ==
    IF Passes(p)
    THEN <<OkReport(p)>>
    ELSE <<ErrorReport(p), StrOfException(RaisedBy(fs[p]), p)>>

Isolation ==
    pc = "done" =>
        \A j \in 1..Len(files) :
            LET b == OwnBlock(files[j])
            IN  /\ \E k \in 1..Len(out) :
                      /\ k + Len(b) - 1 <= Len(out)
                      /\ SubSeq(out, k, k + Len(b) - 1) = b
                /\ Passes(files[j]) => Positions(ErrorReport(files[j])) = {}
                /\ ~Passes(files[j]) => Positions(OkReport(files[j])) = {}

\* A finished run in which a passing path was reported after a failing one.
IsolationWitness ==
    /\ pc = "done"
    /\ \E j, k \in 1..Len(files) :
          /\ j < k
          /\ fs[files[j]] = "missing"
          /\ Passes(files[k])
          /\ Positions(OkReport(files[k])) # {}

----------------------------------------------------------------------------
(* C3: once a passing path has been processed, its report is the single    *)
(* line OK: <path>: that line stands once on the console, is followed by   *)
(* the next block's header or by nothing, and no ERROR: <path> line exists.*)
SuccessCriterion ==
    \A j \in Processed :
        Passes(files[j]) =>
            /\ Cardinality(Positions(OkReport(files[j]))) = 1
            /\ Positions(ErrorReport(files[j])) = {}
            /\ \A k \in Positions(OkReport(files[j])) :
                  k = Len(out) \/ IsHeader(out[k + 1])

SuccessCriterionWitness ==
    /\ pc = "for"
    /\ i = 1
    /\ Passes(files[1])
    /\ out = <<OkReport(files[1])>>

----------------------------------------------------------------------------
(* C4: once a failing path has been processed (missing, unreadable,        *)
(* undecodable or invalid alike), its report is two lines: ERROR: <path>,  *)
(* standing once, directly followed by one non-empty message line that is  *)
(* itself followed by the next header or by nothing; no OK: <path> line.   *)
FailureCriterion ==
    \A j \in Processed :
        (AccessFailure(files[j]) \/ SyntaxFailure(files[j])) =>
            /\ Cardinality(Positions(ErrorReport(files[j]))) = 1
            /\ Positions(OkReport(files[j])) = {}
            /\ \A k \in Positions(ErrorReport(files[j])) :
                  /\ k + 1 <= Len(out)
                  /\ ~IsHeader(out[k + 1])
                  /\ out[k + 1] # ""
                  /\ k + 1 = Len(out) \/ IsHeader(out[k + 2])

\* A finished run that reported an access failure and a syntax failure.
FailureCriterionWitness ==
    /\ pc = "done"
    /\ Len(files) = 2
    /\ AccessFailure(files[1])
    /\ SyntaxFailure(files[2])
    /\ Len(out) = 4

----------------------------------------------------------------------------
(* C5: no exception leaves the loop, and every run that has started        *)
(* reaches the end of the script with exit status 0.                       *)
RunNeverFails ==
    /\ [](pc # "crashed" /\ exitStatus \subseteq {0})
    /\ [](pc = "done" => i = Len(files) /\ exitStatus = {0})
    /\ (pc # "done") ~> (pc = "done" /\ exitStatus = {0})

\* A run in which every file failed, once at the open and once in the load,
\* has ended with status 0.
RunNeverFailsWitness ==
    /\ pc = "done"
    /\ exitStatus = {0}
    /\ Len(files) = 2
    /\ fs[files[1]] = "unreadable"
    /\ fs[files[2]] = "undecodable"

----------------------------------------------------------------------------
(* C6: at most one handle is open, and only between the open and the end   *)
(* of the with block of the current path; none is open when the next open  *)
(* is attempted, when a report line is about to be printed, or at the end. *)
HandleDiscipline ==
    /\ Cardinality(openHandles) <= 1
    /\ openHandles \subseteq {f}
    /\ pc \notin {"load", "exit_with"} => openHandles = {}

\* The second open is about to be attempted after the first file was opened
\* and failed to parse.
HandleDisciplineWitness ==
    /\ pc = "open"
    /\ i = 2
    /\ fs[files[1]] = "invalid"
    /\ openHandles = {}

----------------------------------------------------------------------------
(* C7 as stated: the block of the path just processed is an ERROR block    *)
(* exactly when the parse step (json.load) raised.                          *)
FailureIffParseRaised ==
    (pc = "for" /\ i > 0) => (LastBlockIsError <=> raisedAt = "load")

(* C7 as amended: the block of the path just processed is an ERROR block   *)
(* exactly when the open or the load raised, and the OK line exactly when  *)
(* neither did; it is one of the two, never both.                           *)
FailureIffTryBodyRaised ==
    (BetweenBlocks /\ i > 0) =>
        /\ LastBlockIsError <=> raisedAt \in {"open", "load"}
        /\ LastBlockIsOk <=> raisedAt = "none"
        /\ LastBlockIsError # LastBlockIsOk

\* A path whose open raised has just been reported as a failure.
FailureIffTryBodyRaisedWitness ==
    /\ pc = "for"
    /\ i > 0
    /\ raisedAt = "open"
    /\ LastBlockIsError

----------------------------------------------------------------------------
(* C8: a run that follows another run on the same path list and the same   *)
(* files ends with the console transcript the earlier run ended with.      *)
Idempotence ==
    (pc = "done" /\ runs >= 2) => out = prevOut

\* The second run has ended after reporting a failure and a success.
IdempotenceWitness ==
    /\ pc = "done"
    /\ runs = 2
    /\ Len(out) = 3
    /\ out = prevOut

----------------------------------------------------------------------------
(* C9: no step changes the path list or what is stored at any path.        *)
Frame == [][files' = files /\ fs' = fs]_vars

\* A run has ended after opening one file successfully and failing on one.
FrameWitness ==
    /\ pc = "done"
    /\ \E j, k \in 1..Len(files) :
          /\ fs[files[j]] = "valid"
          /\ fs[files[k]] = "missing"
    /\ Len(out) = 3

----------------------------------------------------------------------------
(* C10: a step that writes a line to the console starts and ends with no   *)
(* handle open, and a finished run has written one line per path plus one  *)
(* per failing path.                                                        *)
ReportAfterRelease ==
    /\ [][out' # out /\ Len(out') > 0 => openHandles = {} /\ openHandles' = {}]_vars
    /\ [](pc = "done" =>
            Len(out) = Len(files)
                       + Cardinality({ j \in 1..Len(files) : ~Passes(files[j]) }))

\* The OK line of a file has just been printed, with its handle released.
ReportAfterReleaseWitness ==
    /\ pc = "for"
    /\ i = 2
    /\ LastBlockIsOk
    /\ Len(out) = 3
    /\ openHandles = {}

====
